---- MODULE Spec2Model ----
(***************************************************************************)
(* The Playwright verification scripts of jules-scratch/verification as a  *)
(* state machine.  Each script is a straight-line Python program wrapped   *)
(* in try / except / finally; a run executes the script's statements one   *)
(* at a time, every browser call either returns or raises, and Python's    *)
(* exception rules decide which statement runs next.  Two runs of          *)
(* different scripts execute concurrently and share only the screenshot    *)
(* directory.                                                              *)
(***************************************************************************)
EXTENDS Integers, Sequences, FiniteSets

VARIABLES script, pc, exc, log, browser, context, page, files, exit, playwright,
          email

vars == <<script, pc, exc, log, browser, context, page, files, exit, playwright,
          email>>

\* The two concurrent scenario processes.
Runs == {1, 2}

\* Number of intermediate instants, per polling wait, at which the awaited
\* condition may first be observed (besides "at once" and "at the timeout").
WaitGrain == 0

\* Length of the random part of the sign-up address (random_string draws 10
\* letters; the model draws fewer, from the letters below).
EmailLen == 1

\* ------------------------------------------------------------- constants
\* Playwright's default timeout of expect(...) assertions, in ms.
DefaultExpectTimeout == 5000
\* Playwright's default timeout of wait_for_url / wait_for_selector, in ms.
DefaultWaitTimeout == 30000
\* expect(outfit_recommender).to_be_visible(timeout=15000)
RecommenderTimeout == 15000
\* expect(try_on_heading).to_be_visible(timeout=10000)
TryOnTimeout == 10000
\* time.sleep(5), in ms.
SleepMs == 5000
\* "10 second timeout": the time the try-on component is given to appear.
TryOnDeadline == 10000

Scripts == {"verify", "verify_feedback_feature", "verify_invalid_image",
            "verify_update", "verify_virtual_try_on"}

\* One statement of a script: its source line, what it does, the block of
\* the try statement it stands in, its polling timeout (0: none) and the
\* artifact path or awaited text it names.
St(line, kind, block, timeout, arg) ==
  [line |-> line, kind |-> kind, block |-> block, timeout |-> timeout, arg |-> arg]

verify ==
  << St(13, "launch", "pre", 0, ""),
     St(14, "new_page", "pre", 0, ""),
     St(17, "compute", "try", 0, "email"),
     St(21, "navigate", "try", 0, "/auth/sign-up"),
     St(22, "screenshot", "try", 0, "signup-page.png"),
     St(23, "fill", "try", 0, "Email"),
     St(24, "fill", "try", 0, "Password"),
     St(25, "click", "try", 0, "Sign Up"),
     St(26, "wait_for_url", "try", DefaultWaitTimeout, "/onboarding"),
     St(29, "click", "try", 0, "Get Started"),
     St(30, "wait_for_url", "try", DefaultWaitTimeout, "/wardrobe"),
     St(33, "click", "try", 0, "Add Item"),
     St(34, "upload", "try", 0, "placeholder.png"),
     St(35, "click", "try", 0, "Add Item"),
     St(36, "assert_visible", "try", DefaultExpectTimeout, "Item added successfully"),
     St(39, "navigate", "try", 0, "/"),
     St(40, "assert_visible", "try", DefaultExpectTimeout,
        "You need to add at least one of each: Bottom, Footwear."),
     St(43, "screenshot", "try", 0, "insufficient-items.png"),
     St(46, "browser_close", "finally", 0, "") >>

\* The feedback script with the screenshot taken before the Dislike button
\* is asserted.
verify_feedback_feature_shot_first ==
  << St(5, "launch", "pre", 0, ""),
     St(6, "new_page", "pre", 0, ""),
     St(10, "navigate", "try", 0, "/"),
     St(14, "assert_visible", "try", RecommenderTimeout, "outfit_recommender"),
     St(17, "assert_visible", "try", DefaultExpectTimeout, "Your Daily Outfit Pick"),
     St(23, "assert_visible", "try", DefaultExpectTimeout, "Like"),
     St(27, "screenshot", "try", 0, "feedback_feature.png"),
     St(24, "assert_visible", "try", DefaultExpectTimeout, "Dislike"),
     St(28, "print_success", "try", 0, "Screenshot taken successfully."),
     St(31, "print_error", "except", 0, "An error occurred"),
     St(32, "error_screenshot", "except", 0, "error.png"),
     St(35, "browser_close", "finally", 0, "") >>

verify_feedback_feature ==
  << St(5, "launch", "pre", 0, ""),
     St(6, "new_page", "pre", 0, ""),
     St(10, "navigate", "try", 0, "/"),
     St(14, "assert_visible", "try", RecommenderTimeout, "outfit_recommender"),
     St(17, "assert_visible", "try", DefaultExpectTimeout, "Your Daily Outfit Pick"),
     St(23, "assert_visible", "try", DefaultExpectTimeout, "Like"),
     St(24, "assert_visible", "try", DefaultExpectTimeout, "Dislike"),
     St(27, "screenshot", "try", 0, "feedback_feature.png"),
     St(28, "print_success", "try", 0, "Screenshot taken successfully."),
     St(31, "print_error", "except", 0, "An error occurred"),
     St(32, "error_screenshot", "except", 0, "error.png"),
     St(35, "browser_close", "finally", 0, "") >>

verify_invalid_image ==
  << St(5, "launch", "pre", 0, ""),
     St(6, "new_context", "pre", 0, ""),
     St(7, "new_page", "pre", 0, ""),
     St(10, "navigate", "try", 0, "/wardrobe"),
     St(13, "click", "try", 0, "Add Item"),
     St(16, "upload", "try", 0, "wooden-plank.jpeg"),
     St(19, "wait_for_selector", "try", DefaultWaitTimeout,
        "AI could not detect a clothing item. Please try another image."),
     St(22, "screenshot", "try", 0, "verification.png"),
     St(25, "context_close", "finally", 0, ""),
     St(26, "browser_close", "finally", 0, "") >>

verify_update ==
  << St(5, "launch", "plain", 0, ""),
     St(6, "new_page", "plain", 0, ""),
     St(7, "sleep", "plain", SleepMs, ""),
     St(8, "navigate", "plain", 0, "/wardrobe"),
     St(9, "click", "plain", 0, "Add Item"),
     St(10, "upload", "plain", 0, "README.md"),
     St(11, "click", "plain", 0, "Add Item"),
     St(12, "click", "plain", 0, "Edit"),
     St(13, "click", "plain", 0, "Save Changes"),
     St(14, "screenshot", "plain", 0, "verification.png"),
     St(15, "browser_close", "plain", 0, "") >>

\* The try-on script with the button asserted after the screenshot.
verify_virtual_try_on_shot_first ==
  << St(5, "launch", "pre", 0, ""),
     St(6, "new_page", "pre", 0, ""),
     St(10, "navigate", "try", 0, "/"),
     St(15, "assert_visible", "try", TryOnTimeout, "Virtual Try-On"),
     St(24, "screenshot", "try", 0, "virtual_try_on_feature.png"),
     St(19, "assert_visible", "try", DefaultExpectTimeout, "Generate Virtual Try-On"),
     St(26, "print_success", "try", 0, "Screenshot captured successfully."),
     St(29, "print_error", "except", 0, "An error occurred during verification"),
     St(31, "error_screenshot", "except", 0, "error_screenshot.png"),
     St(34, "browser_close", "finally", 0, "") >>

verify_virtual_try_on ==
  << St(5, "launch", "pre", 0, ""),
     St(6, "new_page", "pre", 0, ""),
     St(10, "navigate", "try", 0, "/"),
     St(15, "assert_visible", "try", TryOnTimeout, "Virtual Try-On"),
     St(19, "assert_visible", "try", DefaultExpectTimeout, "Generate Virtual Try-On"),
     St(24, "screenshot", "try", 0, "virtual_try_on_feature.png"),
     St(26, "print_success", "try", 0, "Screenshot captured successfully."),
     St(29, "print_error", "except", 0, "An error occurred during verification"),
     St(31, "error_screenshot", "except", 0, "error_screenshot.png"),
     St(34, "browser_close", "finally", 0, "") >>

Steps(s) ==
  CASE s = "verify" -> verify
    [] s = "verify_feedback_feature" -> verify_feedback_feature
    [] s = "verify_invalid_image" -> verify_invalid_image
    [] s = "verify_update" -> verify_update
    [] s = "verify_virtual_try_on" -> verify_virtual_try_on
    [] OTHER -> << >>

Paths == {"signup-page.png", "insufficient-items.png", "feedback_feature.png",
          "error.png", "verification.png", "virtual_try_on_feature.png",
          "error_screenshot.png"}

\* ---------------------------------------------------------- control flow
\* The position after the script's last statement.
End(s) == Len(Steps(s)) + 1

\* The first statement of block b, or End(s) when the script has none.
FirstIn(s, b) ==
  IF \E i \in 1..Len(Steps(s)) : Steps(s)[i].block = b
  THEN CHOOSE i \in 1..Len(Steps(s)) :
         /\ Steps(s)[i].block = b
         /\ \A j \in 1..(i - 1) : Steps(s)[j].block # b
  ELSE End(s)

HasExcept(s) == \E i \in 1..Len(Steps(s)) : Steps(s)[i].block = "except"

\* A try statement whose body falls through into its except clause.
OnReturnFallThrough(s, i) == i + 1

\* The statement that runs after statement i returned: the next one, except
\* that the end of the try body skips the except clause.
OnReturn(s, i) ==
  IF i < Len(Steps(s)) /\ Steps(s)[i].block = "try" /\ Steps(s)[i + 1].block = "except"
  THEN FirstIn(s, "finally")
  ELSE i + 1

\* A soft-assertion runner: the error is swallowed and the next statement runs.
OnRaiseContinue(s, i) == i + 1

\* A script whose except clause also handles what the finally clause raises.
OnRaiseReenter(s, i) ==
  CASE Steps(s)[i].block \in {"try", "finally"} ->
         IF HasExcept(s) THEN FirstIn(s, "except") ELSE FirstIn(s, "finally")
    [] Steps(s)[i].block = "except" -> FirstIn(s, "finally")
    [] OTHER -> End(s)

\* A script whose try statement also encloses launch and new_page.
OnRaiseInsideTry(s, i) ==
  CASE Steps(s)[i].block \in {"pre", "try"} ->
         IF HasExcept(s) THEN FirstIn(s, "except") ELSE FirstIn(s, "finally")
    [] Steps(s)[i].block = "except" -> FirstIn(s, "finally")
    [] OTHER -> End(s)

\* The statement that runs after statement i raised: the except clause for
\* the try body of a script that has one, else the finally clause; from the
\* except clause the finally clause; from anywhere else nothing of the
\* script (the exception leaves the function).
OnRaise(s, i) ==
  CASE Steps(s)[i].block = "try" ->
         IF HasExcept(s) THEN FirstIn(s, "except") ELSE FirstIn(s, "finally")
    [] Steps(s)[i].block = "except" -> FirstIn(s, "finally")
    [] OTHER -> End(s)

\* Whether the exception raised by statement i is still in flight afterwards
\* (only `except Exception` in front of a try body catches it).
Uncaught(s, i) == ~(Steps(s)[i].block = "try" /\ HasExcept(s))

\* string.ascii_lowercase, cut down to two letters.
Letters == {"a", "b"}

\* random_string(length): any string of that many letters.
random_string(length) == [1..length -> Letters]

\* f"user_{random_string()}@example.com"
Address(s) == <<"user_">> \o s \o <<"@example.com">>

\* A generator that raises on some draws.
GeneratedUnlessA(s) == \A i \in DOMAIN s : s[i] # "a"

\* Whether drawing s and formatting the address returns: random.choice over
\* a non-empty alphabet, str.join and the f-string never raise.
Generated(s) == \A i \in DOMAIN s : s[i] \in Letters

\* How long a polling wait with timeout t may take before it returns.
Durations(t) == {(k * t) \div (WaitGrain + 1) : k \in 0..(WaitGrain + 1)}

\* ------------------------------------------------------------------ state
\* script[r]: the script run r executes; pc[r]: the index of its next
\* statement; exc[r]: an exception is in flight; log[r]: the statements
\* executed so far, each with its outcome and how long it waited;
\* browser/context/page: the session objects of run r; files: for every
\* artifact path, the scripts that have written it; exit[r]: the exit status
\* of the process; playwright[r]: the driver the with statement manages;
\* email[r]: the sign-up address run r generated (empty: none yet).
\* A run that was not started executes the empty script "none".
Fresh ==
  /\ pc = [r \in Runs |-> 1]
  /\ exc = [r \in Runs |-> FALSE]
  /\ log = [r \in Runs |-> << >>]
  /\ browser = [r \in Runs |-> "none"]
  /\ context = [r \in Runs |-> "none"]
  /\ page = [r \in Runs |-> "none"]
  /\ files = [p \in Paths |-> {}]
  /\ exit = [r \in Runs |-> "none"]
  /\ playwright = [r \in Runs |-> IF script[r] = "none" THEN "none" ELSE "running"]
  /\ email = [r \in Runs |-> << >>]

\* One script is started, as its __main__ block or module body does.
Init ==
  /\ script \in {f \in [Runs -> Scripts \cup {"none"}] : f[1] # "none" /\ f[2] = "none"}
  /\ Fresh

\* Two different scripts are started side by side.
InitPair ==
  /\ script \in {f \in [Runs -> Scripts] : f[1] # f[2]}
  /\ Fresh

Running(r) == pc[r] < End(script[r])

\* The statement run r executes next.
Cur(r) == Steps(script[r])[pc[r]]

\* Statement Cur(r) returned (ok) or raised after dur ms: record it and move
\* to the statement Python runs next.
Advance(r, ok, dur) ==
  /\ pc' = [pc EXCEPT ![r] = IF ok THEN OnReturn(script[r], pc[r])
                                   ELSE OnRaise(script[r], pc[r])]
  /\ exc' = [exc EXCEPT ![r] = IF ok THEN @ ELSE @ \/ Uncaught(script[r], pc[r])]
  /\ log' = [log EXCEPT ![r] = Append(@, [line |-> Cur(r).line, kind |-> Cur(r).kind,
                                          arg |-> Cur(r).arg, timeout |-> Cur(r).timeout,
                                          ok |-> ok, dur |-> dur])]
  /\ UNCHANGED <<script, exit, playwright>>

\* browser = chromium.launch(...)
Launch(r) ==
  /\ Running(r) /\ Cur(r).kind = "launch"
  /\ \E ok \in BOOLEAN :
       /\ browser' = [browser EXCEPT ![r] = IF ok THEN "open" ELSE @]
       /\ Advance(r, ok, 0)
  /\ UNCHANGED <<context, page, files, email>>

\* context = browser.new_context()
NewContext(r) ==
  /\ Running(r) /\ Cur(r).kind = "new_context"
  /\ \E ok \in BOOLEAN :
       /\ context' = [context EXCEPT ![r] = IF ok THEN "open" ELSE @]
       /\ Advance(r, ok, 0)
  /\ UNCHANGED <<browser, page, files, email>>

\* page = browser.new_page() / context.new_page()
NewPage(r) ==
  /\ Running(r) /\ Cur(r).kind = "new_page"
  /\ \E ok \in BOOLEAN :
       /\ page' = [page EXCEPT ![r] = IF ok THEN "open" ELSE @]
       /\ Advance(r, ok, 0)
  /\ UNCHANGED <<browser, context, files, email>>

\* email = f"user_{random_string()}@example.com"; time.sleep(5): no browser
\* call, nothing that raises.
Local(r) ==
  /\ Running(r) /\ Cur(r).kind \in {"compute", "sleep"}
  /\ \/ /\ Cur(r).kind = "sleep"
        /\ Advance(r, TRUE, Cur(r).timeout)
        /\ UNCHANGED email
     \/ /\ Cur(r).kind = "compute"
        /\ \E s \in random_string(EmailLen) :
             /\ email' = [email EXCEPT ![r] = IF Generated(s) THEN Address(s) ELSE @]
             /\ Advance(r, Generated(s), 0)
  /\ UNCHANGED <<browser, context, page, files>>

\* page.goto, fill, click, set_input_files
Act(r) ==
  /\ Running(r) /\ Cur(r).kind \in {"navigate", "fill", "click", "upload"}
  /\ \E ok \in BOOLEAN : Advance(r, ok, 0)
  /\ UNCHANGED <<browser, context, page, files, email>>

\* wait_for_url, wait_for_selector, expect(...).to_be_visible: returns once
\* the condition is observed, raises when the timeout has passed.
Wait(r) ==
  /\ Running(r) /\ Cur(r).kind \in {"wait_for_url", "wait_for_selector", "assert_visible"}
  /\ \/ \E d \in Durations(Cur(r).timeout) : Advance(r, TRUE, d)
     \/ Advance(r, FALSE, Cur(r).timeout)
  /\ UNCHANGED <<browser, context, page, files, email>>

\* page.screenshot(path=...), in the try body or in the except clause
Screenshot(r) ==
  /\ Running(r) /\ Cur(r).kind \in {"screenshot", "error_screenshot"}
  /\ \E ok \in BOOLEAN :
       /\ files' = [files EXCEPT ![Cur(r).arg] = IF ok THEN @ \cup {script[r]} ELSE @]
       /\ Advance(r, ok, 0)
  /\ UNCHANGED <<browser, context, page, email>>

\* print(...): writes the message and returns.
WriteMessage(r) ==
  /\ Running(r) /\ Cur(r).kind \in {"print_success", "print_error"}
  /\ Advance(r, TRUE, 0)
  /\ UNCHANGED <<browser, context, page, files, email>>

\* context.close()
CloseContext(r) ==
  /\ Running(r) /\ Cur(r).kind = "context_close"
  /\ \E ok \in BOOLEAN :
       /\ context' = [context EXCEPT ![r] = IF ok THEN "closed" ELSE @]
       /\ page' = [page EXCEPT ![r] = IF ok THEN "closed" ELSE @]
       /\ Advance(r, ok, 0)
  /\ UNCHANGED <<browser, files, email>>

\* browser.close()
CloseBrowser(r) ==
  /\ Running(r) /\ Cur(r).kind = "browser_close"
  /\ \E ok \in BOOLEAN :
       /\ browser' = [browser EXCEPT ![r] = IF ok THEN "closed" ELSE @]
       /\ context' = [context EXCEPT ![r] = IF ok /\ @ = "open" THEN "closed" ELSE @]
       /\ page' = [page EXCEPT ![r] = IF ok /\ @ = "open" THEN "closed" ELSE @]
       /\ Advance(r, ok, 0)
  /\ UNCHANGED <<files, email>>

\* The function returned or an exception left it: the with statement stops
\* the Playwright driver and the interpreter exits, with a traceback and a
\* non-zero status when an exception is in flight.
Exit(r) ==
  /\ script[r] # "none" /\ pc[r] = End(script[r]) /\ exit[r] = "none"
  /\ exit' = [exit EXCEPT ![r] = IF exc[r] THEN "nonzero" ELSE "zero"]
  /\ playwright' = [playwright EXCEPT ![r] = "stopped"]
  /\ UNCHANGED <<script, pc, exc, log, browser, context, page, files, email>>

Next ==
  \E r \in Runs :
    \/ Launch(r)
    \/ NewContext(r)
    \/ NewPage(r)
    \/ Local(r)
    \/ Act(r)
    \/ Wait(r)
    \/ Screenshot(r)
    \/ WriteMessage(r)
    \/ CloseContext(r)
    \/ CloseBrowser(r)
    \/ Exit(r)

Spec == Init /\ [][Next]_vars

SpecPair == InitPair /\ [][Next]_vars

\* The same script is run twice, each time against the same fresh application.
InitTwin ==
  /\ script \in {f \in [Runs -> Scripts] : f[1] = f[2]}
  /\ Fresh

\* The application answers a browser call of the script the same way, after
\* the same time, in both runs.
SameResponses ==
  \A i \in DOMAIN log[1] : \A j \in DOMAIN log[2] :
    (script[1] = script[2] /\ log[1][i].line = log[2][j].line
       /\ log[1][i].kind # "compute") =>
      (log[1][i].ok = log[2][j].ok /\ log[1][i].dur = log[2][j].dur)

\* The second run is a re-run: it starts once the first has exited.
NextTwin ==
  /\ Next
  /\ (pc'[2] # pc[2] \/ exit'[2] # exit[2]) => exit[1] # "none"
  /\ SameResponses'

SpecTwin == InitTwin /\ [][NextTwin]_vars

\* Every Playwright call returns or raises within its timeout and the
\* interpreter keeps executing a started script.
FairSpec == Init /\ [][Next]_vars /\ WF_vars(Next)

\* ------------------------------------------------------------ vocabulary
Started(r) == script[r] # "none"
Done(r) == exit[r] # "none"

\* The positions of run r's log holding a statement of one of the kinds.
Calls(r, kinds) == {i \in DOMAIN log[r] : log[r][i].kind \in kinds}

\* The positions of run r's log whose statement raised.
Raised(r) == {i \in DOMAIN log[r] : ~log[r][i].ok}

WaitKinds == {"wait_for_url", "wait_for_selector", "assert_visible"}
CaptureKinds == {"screenshot", "error_screenshot"}
TeardownKinds == {"context_close", "browser_close"}
\* The steps of the scenario proper: everything but the error path and the
\* teardown.
ScenarioKinds == {"launch", "new_context", "new_page", "compute", "sleep", "navigate",
                  "fill", "click", "upload", "screenshot", "print_success"} \cup WaitKinds
\* The steps issued on the page once the session is acquired.
PageKinds == ScenarioKinds \ {"launch", "new_context", "new_page"}
Verdict(r) == IF exit[r] = "zero" /\ Calls(r, {"print_error"}) = {} THEN "pass" ELSE "fail"
PrintsVerdict(s) == s \in {"verify_feedback_feature", "verify_virtual_try_on"}

\* ------------------------------------------------------------------- C1
\* C1: in every finished run that launched the browser, browser.close was
\* called exactly once, and context.close exactly once where a context was
\* created, whichever step raised.
TeardownExactlyOnce ==
  \A r \in Runs :
    (Done(r) /\ browser[r] # "none") =>
      /\ Cardinality(Calls(r, {"browser_close"})) = 1
      /\ context[r] # "none" => Cardinality(Calls(r, {"context_close"})) = 1

\* ------------------------------------------------------------------- C2
\* C2: the scenario steps of a run are executed in the authored order, each
\* only after every earlier step returned; once a step has raised no later
\* scenario step (navigation, interaction, wait, assertion, success
\* screenshot) is executed.
AbortOnFirstFailure ==
  \A r \in Runs : \A j \in Calls(r, ScenarioKinds) :
    /\ log[r][j].line = Steps(script[r])[j].line
    /\ \A i \in 1..(j - 1) : log[r][i].ok

\* A finished run in which a scenario step raised while later scenario steps
\* were still to come, and statements ran after it.
AbortWitness ==
  \E r \in Runs :
    /\ Done(r)
    /\ \E i \in Raised(r) :
         /\ log[r][i].kind \in PageKinds
         /\ i < Len(log[r])
         /\ Steps(script[r])[i + 1].kind \in PageKinds

\* ------------------------------------------------------------------- C3
\* C3: in every finished run, after a page step raised an error screenshot
\* was attempted, before any teardown call, and the run is marked failed.
ErrorScreenshotBeforeTeardown ==
  \A r \in Runs :
    Done(r) =>
      \A i \in Raised(r) :
        log[r][i].kind \in PageKinds =>
          /\ Verdict(r) = "fail"
          /\ \E j \in Calls(r, {"error_screenshot"}) :
               /\ j > i
               /\ \A k \in Calls(r, TeardownKinds) : k > j

\* ------------------------------------------------------------------- C4
\* C4: a finished run in which any statement raised has a non-zero exit
\* status; the exit status is zero only if every statement returned.
ExitStatusTellsOutcome ==
  \A r \in Runs : (Done(r) /\ Raised(r) # {}) => exit[r] = "nonzero"

\* ------------------------------------------------------------------- C5
\* C5: a screenshot that raises does not change the verdict: a finished run
\* in which nothing but screenshot calls raised has the verdict of the run
\* in which they returned, which is a pass.
CaptureFailureKeepsVerdict ==
  \A r \in Runs :
    (Done(r) /\ \A i \in Raised(r) : log[r][i].kind \in CaptureKinds) =>
      Verdict(r) = "pass"

\* ------------------------------------------------------------------- C6
\* The messages a run has printed.
Printed(r, kind) == Calls(r, {kind}) # {}

OneOutcome ==
  \A r \in Runs :
    /\ Done(r) => exit[r] \in {"zero", "nonzero"}
    /\ (Done(r) /\ PrintsVerdict(script[r])) =>
         /\ ~(Printed(r, "print_success") /\ Printed(r, "print_error"))
         /\ page[r] # "none" => (Printed(r, "print_success") \/ Printed(r, "print_error"))
         /\ Cardinality(Calls(r, {"print_success", "print_error"})) <= 1

ArtifactPathsExclusive ==
  \A p \in Paths : Cardinality(files[p]) <= 1

\* ------------------------------------------------------------------- C8
RECURSIVE SumDur(_, _, _)
\* The time the statements a..b of a log took together.
SumDur(seq, a, b) == IF a > b THEN 0 ELSE seq[a].dur + SumDur(seq, a + 1, b)

\* The last navigation of run r before position j of its log (0: none).
LastNav(r, j) ==
  LET navs == {i \in 1..(j - 1) : log[r][i].kind = "navigate"}
  IN IF navs = {} THEN 0 ELSE CHOOSE i \in navs : \A k \in navs : k <= i

\* The time after the last navigation at which statement j of run r's log
\* returned: when a wait or assertion observed its condition.
ObservedAt(r, j) == SumDur(log[r], LastNav(r, j) + 1, j)

\* C8: a virtual try-on run that printed the success message observed the
\* heading and the button no later than 10 seconds after the navigation.
TryOnWithinDeadline ==
  \A r \in Runs :
    (script[r] = "verify_virtual_try_on" /\ Printed(r, "print_success")) =>
      \A j \in Calls(r, {"assert_visible"}) : ObservedAt(r, j) <= TryOnDeadline

\* ------------------------------------------------------------------- C9
\* C9: in the insufficient-wardrobe run, insufficient-items.png is written
\* only after every step before it returned, in order (sign-up, onboarding,
\* item added and confirmed, homepage loaded, message asserted); and a run
\* in which a step raised took a screenshot after the failure.
InsufficientWardrobePath ==
  \A r \in Runs :
    script[r] = "verify" =>
      /\ \A c \in Calls(r, {"screenshot"}) :
           (log[r][c].arg = "insufficient-items.png" /\ log[r][c].ok) =>
             /\ c = Len(verify) - 1
             /\ \A k \in 1..(c - 1) : log[r][k].ok /\ log[r][k].line = verify[k].line
      /\ Done(r) =>
           \A i \in Raised(r) :
             log[r][i].kind \in PageKinds =>
               \E j \in Calls(r, CaptureKinds) : j > i

\* ------------------------------------------------------------------ C10
\* C10: a polling wait that reports failure does so no earlier than its
\* timeout, one that reports success does so within it, and no run executes
\* a fixed sleep.
PollingWaitsOnly ==
  \A r \in Runs : \A i \in DOMAIN log[r] :
    /\ (log[r][i].kind \in WaitKinds /\ ~log[r][i].ok) => log[r][i].dur >= log[r][i].timeout
    /\ (log[r][i].kind \in WaitKinds /\ log[r][i].ok) => log[r][i].dur <= log[r][i].timeout
    /\ log[r][i].kind # "sleep"

\* ------------------------------------------------------------------ C11
\* C11: two finished runs of the same script that got the same application
\* responses have the same exit status and the same verdict, whichever
\* sign-up addresses random_string generated for them.
SameOutcome ==
  \A a, b \in Runs :
    (Done(a) /\ Done(b) /\ script[a] = script[b]) =>
      (exit[a] = exit[b] /\ Verdict(a) = Verdict(b))

\* Two finished runs of verify.py that signed up with different addresses
\* and in which a later step raised.
SameOutcomeWitness ==
  /\ Done(1) /\ Done(2)
  /\ script[1] = "verify" /\ script[2] = "verify"
  /\ email[1] # << >> /\ email[2] # << >> /\ email[1] # email[2]
  /\ \E i \in Raised(1) : log[1][i].kind = "assert_visible"

\* ------------------------------------------------------------------ C12
\* C12: launch is attempted at most once per run; when it raises, nothing
\* else of the script is executed (no page step, no screenshot, no error
\* message, no close of the session that does not exist), the exception
\* stays in flight and the run exits with a non-zero status.
LaunchFailureFatal ==
  \A r \in Runs :
    /\ Cardinality(Calls(r, {"launch"})) <= 1
    /\ (log[r] # << >> /\ log[r][1].kind = "launch" /\ ~log[r][1].ok) =>
         /\ Len(log[r]) = 1
         /\ browser[r] = "none"
         /\ exc[r]
         /\ Done(r) => exit[r] = "nonzero"

\* A finished run of a script with an except clause whose launch raised.
LaunchFailureWitness ==
  \E r \in Runs :
    /\ Done(r) /\ HasExcept(script[r])
    /\ Calls(r, {"launch"}) = {1} /\ ~log[r][1].ok

\* ------------------------------------------------------------------ C13
\* The calls issued on the page.
PageOps == {"navigate", "fill", "click", "upload", "screenshot", "error_screenshot"}
             \cup WaitKinds

\* C13: a page operation (the error screenshot of the except clause
\* included) is only ever the next statement while the run's browser and
\* page are open, and every page operation in a log comes after the
\* successful launch and new_page and before any close call.
PageOpsWhileOpen ==
  \A r \in Runs :
    /\ (Running(r) /\ Cur(r).kind \in PageOps) =>
         (browser[r] = "open" /\ page[r] = "open")
    /\ \A j \in Calls(r, PageOps) :
         /\ \E i \in Calls(r, {"launch"}) : i < j /\ log[r][i].ok
         /\ \E i \in Calls(r, {"new_page"}) : i < j /\ log[r][i].ok
         /\ \A k \in Calls(r, TeardownKinds) : j < k

\* A finished run that took the error screenshot and then closed its browser.
PageOpsWitness ==
  \E r \in Runs :
    /\ Done(r) /\ browser[r] = "closed"
    /\ \E j \in Calls(r, {"error_screenshot"}) : log[r][j].ok

\* ------------------------------------------------------------------ C14
\* C14: in the two scripts with an except clause, the error screenshot is
\* attempted only after a browser call of the try body, up to and including
\* the success screenshot, raised; no run has both the success screenshot
\* and the error screenshot return.
ArtifactsExclusive ==
  \A r \in Runs :
    PrintsVerdict(script[r]) =>
      /\ \A j \in Calls(r, {"error_screenshot"}) :
           \E i \in Raised(r) :
             /\ i < j
             /\ log[r][i].kind \in PageOps
             /\ \A c \in Calls(r, {"screenshot"}) : i <= c
      /\ ~(\E c \in Calls(r, {"screenshot"}), j \in Calls(r, {"error_screenshot"}) :
             log[r][c].ok /\ log[r][j].ok)

\* A finished run whose success screenshot raised and whose error
\* screenshot was then written.
ArtifactsExclusiveWitness ==
  \E r \in Runs :
    /\ Done(r) /\ PrintsVerdict(script[r])
    /\ \E c \in Calls(r, {"screenshot"}) : ~log[r][c].ok
    /\ \E j \in Calls(r, {"error_screenshot"}) : log[r][j].ok

\* ------------------------------------------------------------------ C15
\* Whether a wait or assertion of run r observed text.
Observed(r, text) ==
  \E i \in Calls(r, WaitKinds) : log[r][i].arg = text /\ log[r][i].ok

\* C15: a screenshot of the try body is written only if every statement the
\* script executed before it returned and every wait and assertion that
\* stands before it in the source was observed to hold; so
\* feedback_feature.png implies the recommender, its heading and the Like
\* and Dislike buttons were seen, and verification.png of the invalid-image
\* script implies the rejection text was seen.
SuccessArtifactImpliesObserved ==
  \A r \in Runs : \A c \in Calls(r, {"screenshot"}) :
    log[r][c].ok =>
      /\ \A i \in 1..(c - 1) : log[r][i].ok
      /\ \A k \in 1..Len(Steps(script[r])) :
           (Steps(script[r])[k].kind \in WaitKinds
              /\ Steps(script[r])[k].line < log[r][c].line) =>
             \E i \in 1..(c - 1) :
               log[r][i].line = Steps(script[r])[k].line /\ log[r][i].ok
      /\ log[r][c].arg = "feedback_feature.png" =>
           /\ Observed(r, "outfit_recommender")
           /\ Observed(r, "Your Daily Outfit Pick")
           /\ Observed(r, "Like")
           /\ Observed(r, "Dislike")
      /\ (log[r][c].arg = "verification.png" /\ script[r] = "verify_invalid_image") =>
           Observed(r, "AI could not detect a clothing item. Please try another image.")

\* Runs that wrote feedback_feature.png, or verification.png of the
\* invalid-image script, and have exited.
SuccessArtifactWitness ==
  \E r \in Runs :
    /\ Done(r)
    /\ script[r] \in {"verify_feedback_feature", "verify_invalid_image"}
    /\ \E c \in Calls(r, {"screenshot"}) : log[r][c].ok

====
